---- MODULE Spec2Model ----
(***************************************************************************)
(* A model of the Telegram MCP server (server.py): the client wrapper's    *)
(* connect/disconnect life cycle, main, the tool dispatcher call_tool, the *)
(* tool handlers, and the pure helpers they use.                           *)
(*                                                                         *)
(* Python values are tagged records ([t |-> "int", v |-> 3]); a Python str *)
(* whose characters matter is a sequence of one-character strings.  The    *)
(* remote client (Telethon) is the environment: what each of its calls     *)
(* returns or raises is chosen nondeterministically per tool call.         *)
(***************************************************************************)
EXTENDS Integers, Sequences, FiniteSets, TLC

VARIABLES pc, config, client, connected, connectResult,
          connectCalls, disconnectCalls, opened, listed, served, call, outcome

vars == <<pc, config, client, connected, connectResult,
          connectCalls, disconnectCalls, opened, listed, served, call, outcome>>

(* ------------------------------ bounds -------------------------------- *)

\* longest chat reference string given to resolve_chat_id
MaxLen == 3

\* tool calls served in one run of main
MaxCalls == 2

\* tool listings served in one run of main
MaxLists == 1

\* longest message stream of a chat
MaxStream == 3

\* latest instant a message is dated at
MaxInstant == 3

\* largest limit argument
MaxLimit == 3

\* most dialogs the account holds
MaxDialogs == 3

\* most users a contact search returns
MaxUsers == 3

(* --------------------------- Python values ---------------------------- *)

PyNone == [t |-> "none"]

PyInt(n) == [t |-> "int", v |-> n]

PyStr(s) == [t |-> "str", v |-> s]

Min(a, b) == IF a < b THEN a ELSE b

Max(a, b) == IF a > b THEN a ELSE b

\* all sequences over S of length at most n
SeqsUpTo(S, n) == UNION {[1..k -> S] : k \in 0..n}

(* -------------------------- resolve_chat_id --------------------------- *)

Digits == {"0", "1"}

Signs == {"-", "+"}

\* the characters chat references are built from
Chars == {"@", "-", "+", "0", "1", "a", " ", "_"}

DigitValue(c) == IF c = "1" THEN 1 ELSE 0

RECURSIVE LStripChar(_, _)
\* str.lstrip(c): every leading occurrence of c is removed
LStripChar(s, c) ==
  IF Len(s) > 0 /\ Head(s) = c THEN LStripChar(Tail(s), c) ELSE s

RECURSIVE RStripChar(_, _)
RStripChar(s, c) ==
  IF Len(s) > 0 /\ s[Len(s)] = c THEN RStripChar(SubSeq(s, 1, Len(s) - 1), c) ELSE s

\* int(str) ignores surrounding whitespace
StripSpace(s) == RStripChar(LStripChar(s, " "), " ")

\* the numeral after whitespace and an optional sign
Unsigned(s) ==
  LET b == StripSpace(s)
  IN  IF Len(b) > 0 /\ Head(b) \in Signs THEN Tail(b) ELSE b

\* int(str) accepts: [ws] [sign] digit (["_"] digit)* [ws]
IntAccepts(s) ==
  LET u == Unsigned(s)
  IN  /\ Len(u) > 0
      /\ \A i \in 1..Len(u) : u[i] \in Digits \cup {"_"}
      /\ u[1] \in Digits
      /\ u[Len(u)] \in Digits
      /\ \A i \in 1..(Len(u) - 1) : ~(u[i] = "_" /\ u[i + 1] = "_")

RECURSIVE DigitsValue(_, _)
\* base-10 value of the digits of u, underscores skipped
DigitsValue(u, acc) ==
  IF Len(u) = 0 THEN acc
  ELSE IF Head(u) = "_" THEN DigitsValue(Tail(u), acc)
  ELSE DigitsValue(Tail(u), 10 * acc + DigitValue(Head(u)))

IntParse(s) ==
  LET b == StripSpace(s)
      neg == Len(b) > 0 /\ Head(b) = "-"
      n == DigitsValue(Unsigned(s), 0)
  IN  IF neg THEN 0 - n ELSE n

\* a plausible slip: only the first "@" is removed
StripMarkerOnce(s) == IF Len(s) > 0 /\ Head(s) = "@" THEN Tail(s) ELSE s

\* the except ValueError branch: chat_id_raw.lstrip("@")
StripMarker(s) == LStripChar(s, "@")

resolve_chat_id(chat_id_raw) ==
  IF chat_id_raw.t = "str"
  THEN IF IntAccepts(chat_id_raw.v)
       THEN PyInt(IntParse(chat_id_raw.v))
       ELSE PyStr(StripMarker(chat_id_raw.v))
  ELSE chat_id_raw

(* ------------------------ exceptions, outcomes ------------------------ *)

NoExc == [cls |-> "none", msg |-> <<>>]

Exc(cls, msg) == [cls |-> cls, msg |-> msg]

\* the four telethon.errors classes call_tool names
RpcErrors == {"ChatAdminRequiredError", "ChannelPrivateError",
              "MessageNotModifiedError", "MessageAuthorRequiredError"}

\* classes derived from Exception that the remote client or the handlers raise
ExcClasses == RpcErrors \cup {"ValueError", "KeyError", "TypeError",
                              "AttributeError", "ConnectionError"}

\* isinstance(exc, base) over the classes above: each derives from Exception only
IsInstance(exc, base) == exc.cls = base \/ (base = "Exception" /\ exc.cls \in ExcClasses)

\* what a coroutine did: returned `value`, or raised `exc`; `remote` is the log
\* of the calls it made on telegram.client, in order
Returned(value, remote) == [raised |-> FALSE, exc |-> NoExc, value |-> value, remote |-> remote]

Raised(exc, remote) == [raised |-> TRUE, exc |-> exc, value |-> PyNone, remote |-> remote]

\* truth value of a Python object
Truthy(x) ==
  CASE x.t = "none" -> FALSE
    [] x.t = "bool" -> x.v
    [] x.t = "int" -> x.v # 0
    [] x.t = "str" -> Len(x.v) > 0
    [] x.t = "list" -> Len(x.v) > 0
    [] OTHER -> TRUE

PyBool(b) == [t |-> "bool", v |-> b]

PyList(items) == [t |-> "list", v |-> items]

\* a dict: d maps each key that is present to its value
PyDict(d) == [t |-> "dict", d |-> d]

\* x or y
Or(x, y) == IF Truthy(x) THEN x ELSE y

(* ----------------------------- text blocks ---------------------------- *)

\* a str built by the dispatcher or a handler: the fragments of the f-string,
\* a line break being the fragment "\n"
Plain(frags) == [fmt |-> "plain", frags |-> frags, value |-> PyNone]

\* json.dumps(value, indent=2): the text is the JSON document of value
json_dumps(value) == [fmt |-> "json", frags |-> <<>>, value |-> value]

TextContent(text) == [type |-> "text", text |-> text]

(* -------------------------- formatting helpers ------------------------ *)

\* instants per day: a datetime is an instant, a "%Y-%m-%d" date is a day
TicksPerDay == 2

\* dt.strftime("%Y-%m-%d %H:%M:%S UTC"): the day, the time within it, the suffix
format_timestamp(dt) ==
  IF dt.t = "none" THEN PyNone
  ELSE PyStr(<<ToString(dt.v \div TicksPerDay), "d", ToString(dt.v % TicksPerDay), " UTC">>)

RECURSIVE FirstAttrType(_)
\* the loop over doc.attributes: the first attribute that names a type decides
FirstAttrType(attrs) ==
  IF Len(attrs) = 0 THEN "document"
  ELSE LET attr == Head(attrs)
       IN  CASE attr.name = "DocumentAttributeVideo" -> "video"
             [] attr.name = "DocumentAttributeAudio" -> IF attr.voice THEN "voice" ELSE "audio"
             [] attr.name = "DocumentAttributeSticker" -> "sticker"
             [] attr.name = "DocumentAttributeAnimated" -> "gif"
             [] OTHER -> FirstAttrType(Tail(attrs))

get_media_type(message) ==
  LET media == message.media
  IN  IF media.t = "none" THEN PyNone
      ELSE IF media.cls = "MessageMediaPhoto" THEN PyStr(<<"photo">>)
      ELSE IF media.cls = "MessageMediaDocument" /\ media.document.t # "none"
           THEN PyStr(<<FirstAttrType(media.document.attributes)>>)
      ELSE IF media.cls = "MessageMediaWebPage" THEN PyStr(<<"webpage">>)
      ELSE IF media.cls = "MessageMediaGeo" THEN PyStr(<<"location">>)
      ELSE IF media.cls = "MessageMediaContact" THEN PyStr(<<"contact">>)
      ELSE IF media.cls = "MessageMediaPoll" THEN PyStr(<<"poll">>)
      ELSE PyStr(<<"other">>)

get_user_status(user) ==
  IF user.t = "none" \/ user.status.t = "none" THEN PyStr(<<"unknown">>)
  ELSE LET status == user.status
       IN  CASE status.cls = "UserStatusOnline" -> PyStr(<<"online">>)
             [] status.cls = "UserStatusOffline" ->
                  PyStr(<<"offline (last seen ">> \o format_timestamp(status.was_online).v \o <<")">>)
             [] status.cls = "UserStatusRecently" -> PyStr(<<"recently">>)
             [] status.cls = "UserStatusLastWeek" -> PyStr(<<"last week">>)
             [] status.cls = "UserStatusLastMonth" -> PyStr(<<"last month">>)
             [] OTHER -> PyStr(<<"unknown">>)

\* str(obj.id)
StrId(entity) == PyStr(<<ToString(entity.id)>>)

get_sender_name(sender) ==
  IF sender.t = "none" THEN PyStr(<<"Unknown">>)
  ELSE IF sender.cls = "User"
  THEN LET first == Or(sender.first_name, PyStr(<<>>)).v
           last == Or(sender.last_name, PyStr(<<>>)).v
           name == IF Len(first) > 0 /\ Len(last) > 0 THEN first \o <<" ">> \o last
                   ELSE first \o last
       IN  Or(Or(PyStr(name), sender.username), StrId(sender))
  ELSE IF sender.cls \in {"Chat", "Channel"} THEN Or(sender.title, StrId(sender))
  ELSE StrId(sender)

get_chat_type(dialog_or_entity) ==
  LET entity == IF "entity" \in DOMAIN dialog_or_entity
                THEN dialog_or_entity.entity ELSE dialog_or_entity
  IN  IF entity.cls = "Channel" THEN (IF entity.megagroup THEN "group" ELSE "channel")
      ELSE IF entity.cls = "Chat" THEN "group"
      ELSE IF entity.cls = "User" THEN (IF entity.bot THEN "bot" ELSE "user")
      ELSE "unknown"

\* d with key k set to v
DictSet(d, k, v) == (k :> v) @@ d

\* a plausible slip: the key is set whether or not it has a value
DictSetAlways(cond, d, k, v) == DictSet(d, k, v)

\* d with key k set to v when cond holds
DictSetIf(cond, d, k, v) == IF cond THEN DictSet(d, k, v) ELSE d

\* what the remote client does at a call site of this tool call: NoExc, or the
\* exception the call raises
RaisesAt(env, site) == IF site \in DOMAIN env.raises THEN env.raises[site] ELSE NoExc

format_message(message, env) ==
  IF RaisesAt(env, "get_sender").cls # "none"
  THEN Raised(RaisesAt(env, "get_sender"), <<"get_sender">>)
  ELSE
    LET sender == message.sender
        sender_name == get_sender_name(sender)
        sender_id == IF sender.t # "none" THEN PyInt(sender.id) ELSE PyNone
        base == [id |-> PyInt(message.id),
                 sender_name |-> sender_name,
                 sender_id |-> sender_id,
                 date |-> format_timestamp(message.date),
                 text |-> Or(message.text, PyStr(<<>>))]
        r1 == DictSetIf(Truthy(message.reply_to), base, "reply_to_msg_id",
                        IF message.reply_to.t = "none" THEN PyNone
                        ELSE message.reply_to.reply_to_msg_id)
        media_type == get_media_type(message)
        r2 == DictSetIf(Truthy(media_type), r1, "media_type", media_type)
        r3 == DictSetIf(Truthy(message.forward), r2, "forwarded", PyBool(TRUE))
    IN  Returned(PyDict(r3), <<"get_sender">>)

(* ------------------------------ handlers ------------------------------ *)

\* args.get(key, default)
ArgGet(args, key, default) == IF key \in DOMAIN args THEN args[key] ELSE default

\* the KeyError of args[key] for a key that is absent
MissingKey(key) == Exc("KeyError", <<"'", key, "'">>)

\* str(x) inside an f-string
StrOf(x) ==
  CASE x.t = "int" -> <<ToString(x.v)>>
    [] x.t = "str" -> x.v
    [] OTHER -> <<"None">>

\* s[:n]
Slice(s, n) == SubSeq(s, 1, Min(n, Len(s)))

\* the first n elements the iterator of `items` yields under limit=n
Take(items, n) == SubSeq(items, 1, Min(Max(n, 0), Len(items)))

\* a plausible slip: the list is left in the order it was collected
ReverseKept(s) == s

\* list.reverse()
Reverse(s) == [i \in 1..Len(s) |-> s[Len(s) + 1 - i]]

\* a plausible slip: str(value) is returned in place of json.dumps(value)
JsonReplyAsStr(value, remote) == Returned(<<TextContent(Plain(<<"{...}">>))>>, remote)

\* one text block holding the JSON document of value
JsonReply(value, remote) == Returned(<<TextContent(json_dumps(value))>>, remote)

\* one text block holding a diagnostic line
TextReply(frags, remote) == Returned(<<TextContent(Plain(frags))>>, remote)

\* datetime.strptime(s, "%Y-%m-%d").replace(tzinfo=utc): midnight of the day
IsDateStr(s) == s.t = "str" /\ "day" \in DOMAIN s

strptime(s) == PyInt(s.day * TicksPerDay)

StrptimeError == Exc("ValueError", <<"time data does not match format '%Y-%m-%d'">>)

\* the chat_info dict of one dialog
ChatInfo(d) ==
  LET base == [id |-> PyInt(d.id),
               title |-> Or(d.title, d.name),
               type |-> PyStr(<<get_chat_type(d)>>),
               unread_count |-> PyInt(d.unread_count)]
      preview == d.message.t # "none" /\ Truthy(d.message.text)
  IN  PyDict(DictSetIf(preview,
                DictSetIf(preview, base, "last_message",
                          IF preview THEN PyStr(Slice(d.message.text.v, 100)) ELSE PyNone),
                "last_message_date",
                IF preview THEN format_timestamp(d.message.date) ELSE PyNone))

\* a plausible slip: the filter is never applied
ListChatsLoopUnfiltered(dialogs, chat_type_filter, results) ==
  results \o [i \in 1..Len(dialogs) |-> ChatInfo(dialogs[i])]

RECURSIVE ListChatsLoop(_, _, _)
ListChatsLoop(dialogs, chat_type_filter, results) ==
  IF Len(dialogs) = 0 THEN results
  ELSE LET d == Head(dialogs)
           ctype == get_chat_type(d)
       IN  IF Truthy(chat_type_filter) /\ <<ctype>> # chat_type_filter.v
           THEN ListChatsLoop(Tail(dialogs), chat_type_filter, results)
           ELSE ListChatsLoop(Tail(dialogs), chat_type_filter, Append(results, ChatInfo(d)))

handle_list_chats(args, env) ==
  LET limit == ArgGet(args, "limit", PyInt(20))
      chat_type_filter == ArgGet(args, "chat_type", PyNone)
  IN  IF RaisesAt(env, "get_dialogs").cls # "none"
      THEN Raised(RaisesAt(env, "get_dialogs"), <<"get_dialogs">>)
      ELSE JsonReply(PyList(ListChatsLoop(Take(env.dialogs, limit.v), chat_type_filter, <<>>)),
                     <<"get_dialogs">>)

\* the basic fields of get_chat_info, before the best-effort fetches
ChatInfoBase(entity) ==
  LET info == [id |-> PyInt(entity.id), type |-> PyStr(<<get_chat_type(entity)>>)]
  IN  IF entity.cls = "User"
      THEN [first_name |-> entity.first_name, last_name |-> entity.last_name,
            username |-> entity.username, phone |-> entity.phone,
            bot |-> PyBool(entity.bot), status |-> get_user_status(entity)] @@ info
      ELSE IF entity.cls \in {"Chat", "Channel"}
      THEN LET i1 == DictSet(info, "title", entity.title)
               i2 == IF entity.cls = "Channel"
                     THEN DictSet(DictSet(i1, "username", entity.username),
                                  "megagroup", PyBool(entity.megagroup))
                     ELSE i1
           IN  DictSetIf(Truthy(entity.participants_count), i2,
                         "member_count", entity.participants_count)
      ELSE info

\* a plausible slip: a full-info request that fails leaves a null description
ChatInfoFullNull(entity, info, env) ==
  IF entity.cls \notin {"Chat", "Channel"} THEN [info |-> info, remote |-> <<>>]
  ELSE [info |-> DictSet(info, "description", PyNone), remote |-> <<"GetFullChatRequest">>]

\* the first try block: the full-info request of a Channel or a Chat
ChatInfoFull(entity, info, env) ==
  IF entity.cls \notin {"Chat", "Channel"} THEN [info |-> info, remote |-> <<>>]
  ELSE LET site == IF entity.cls = "Channel" THEN "GetFullChannelRequest"
                   ELSE "GetFullChatRequest"
       IN  IF RaisesAt(env, site).cls # "none" THEN [info |-> info, remote |-> <<site>>]
           ELSE [info |-> DictSetIf(Truthy(env.full.participants_count),
                                    DictSet(info, "description", env.full.about),
                                    "member_count", env.full.participants_count),
                 remote |-> <<site>>]

\* the second try block: the newest message, kept when it is pinned
ChatInfoPinned(info, env) ==
  LET msgs == Take(env.stream, 1)
  IN  IF RaisesAt(env, "iter_messages").cls # "none" \/ Len(msgs) = 0 \/ ~msgs[1].pinned
      THEN info
      ELSE DictSet(info, "pinned_message",
                   PyDict([id |-> PyInt(msgs[1].id),
                           text |-> PyStr(Slice(Or(msgs[1].text, PyStr(<<>>)).v, 200)),
                           date |-> format_timestamp(msgs[1].date)]))

handle_get_chat_info(args, env) ==
  IF "chat_id" \notin DOMAIN args THEN Raised(MissingKey("chat_id"), <<>>)
  ELSE IF RaisesAt(env, "get_entity").cls # "none"
  THEN Raised(RaisesAt(env, "get_entity"), <<"get_entity">>)
  ELSE LET entity == env.entity
           full == ChatInfoFull(entity, ChatInfoBase(entity), env)
       IN  JsonReply(PyDict(ChatInfoPinned(full.info, env)),
                     <<"get_entity">> \o full.remote \o <<"iter_messages">>)

\* a plausible slip: a message dated exactly at the cutoff is dropped too
OlderThanOrAt(date, min_dt) == date <= min_dt

\* msg.date.replace(tzinfo=utc) < min_dt
OlderThan(date, min_dt) == date < min_dt

\* how the loop of handle_read_messages ended: the exception it raised if any,
\* the messages collected, the number of elements taken from the iterator
LoopEnd(exc, messages, consumed, remote) ==
  [raised |-> exc.cls # "none", exc |-> exc, messages |-> messages,
   consumed |-> consumed, remote |-> remote]

RECURSIVE ReadLoop(_, _, _, _, _, _)
\* the body of the async for of handle_read_messages for the i-th element, f being
\* the outcome of format_message(msg)
ReadStep(stream, i, messages, args, env, remote, f) ==
  IF Truthy(ArgGet(args, "min_date", PyNone)) /\ ~IsDateStr(args["min_date"])
  THEN LoopEnd(StrptimeError, messages, i, remote)
  ELSE IF Truthy(ArgGet(args, "min_date", PyNone))
          /\ OlderThan(stream[i].date.v, strptime(args["min_date"]).v)
  THEN LoopEnd(NoExc, messages, i, remote)
  ELSE IF f.raised
  THEN LoopEnd(f.exc, messages, i, remote \o f.remote)
  ELSE IF Len(messages) + 1 >= ArgGet(args, "limit", PyInt(20)).v
  THEN LoopEnd(NoExc, Append(messages, f.value), i, remote \o f.remote)
  ELSE ReadLoop(stream, i + 1, Append(messages, f.value), args, env, remote \o f.remote)

\* the async for of handle_read_messages from the i-th element of the stream on
ReadLoop(stream, i, messages, args, env, remote) ==
  IF i > Len(stream)
  THEN LoopEnd(NoExc, messages, Len(stream), remote)
  ELSE ReadStep(stream, i, messages, args, env, remote, format_message(stream[i], env))

\* telegram.client.iter_messages(chat_id, limit=limit, ...): the messages the
\* chat holds, newest first as the service orders them, at most limit of them
iter_messages(env, limit) == Take(env.stream, limit.v)

\* the run of the loop of handle_read_messages (None when an argument fails first)
ReadRun(args, env) ==
  ReadLoop(iter_messages(env, ArgGet(args, "limit", PyInt(20))), 1, <<>>, args, env,
           <<"iter_messages">>)

\* the result dict of handle_read_messages
ReadResult(args, messages) ==
  LET base == [chat_id |-> args["chat_id"],
               message_count |-> PyInt(Len(messages)),
               messages |-> PyList(messages)]
      last == messages[Len(messages)].d["id"]
  IN  IF Len(messages) > 0
      THEN DictSet(DictSet(base, "oldest_message_id", last),
                   "pagination_hint",
                   PyStr(<<"To load older messages, use offset_id=">> \o StrOf(last)))
      ELSE base

\* what handle_read_messages does once its loop has ended as run
ReadReply(args, run) ==
  IF run.raised THEN Raised(run.exc, run.remote)
  ELSE JsonReply(PyDict(ReadResult(args, run.messages)), run.remote)

handle_read_messages(args, env) ==
  IF "chat_id" \notin DOMAIN args THEN Raised(MissingKey("chat_id"), <<>>)
  ELSE IF Truthy(ArgGet(args, "max_date", PyNone)) /\ ~IsDateStr(args["max_date"])
  THEN Raised(StrptimeError, <<>>)
  ELSE IF RaisesAt(env, "iter_messages").cls # "none"
  THEN Raised(RaisesAt(env, "iter_messages"), <<"iter_messages">>)
  ELSE ReadReply(args, ReadRun(args, env))

\* getattr(chat, "title", None) or get_sender_name(chat)
ChatName(chat) ==
  Or(IF chat.cls \in {"Chat", "Channel"} THEN chat.title ELSE PyNone,
     get_sender_name(chat))

\* the formatted message of a global search, with the chat it comes from
WithChat(formatted, msg) ==
  PyDict(DictSet(DictSet(formatted.d, "chat_name", ChatName(msg.chat)),
                 "chat_id", PyInt(msg.chat_id)))

RECURSIVE SearchLoop(_, _, _, _, _)
\* the body of the async for of handle_search_messages for msg, f being the
\* outcome of format_message(msg)
SearchStep(stream, messages, chat_id, env, remote, f) ==
  IF f.raised
  THEN LoopEnd(f.exc, messages, 0, remote \o f.remote)
  ELSE IF Truthy(chat_id) \/ ~Truthy(Head(stream).chat)
  THEN SearchLoop(Tail(stream), Append(messages, f.value), chat_id, env,
                  remote \o f.remote)
  ELSE IF RaisesAt(env, "get_chat").cls # "none"
  THEN LoopEnd(RaisesAt(env, "get_chat"), messages, 0,
               remote \o f.remote \o <<"get_chat">>)
  ELSE SearchLoop(Tail(stream), Append(messages, WithChat(f.value, Head(stream))),
                  chat_id, env, remote \o f.remote \o <<"get_chat">>)

\* the async for of handle_search_messages
SearchLoop(stream, messages, chat_id, env, remote) ==
  IF Len(stream) = 0 THEN LoopEnd(NoExc, messages, 0, remote)
  ELSE SearchStep(stream, messages, chat_id, env, remote,
                  format_message(Head(stream), env))

\* what handle_search_messages does once its loop has ended as run
SearchReply(args, run) ==
  IF run.raised THEN Raised(run.exc, run.remote)
  ELSE JsonReply(PyDict([query |-> args["query"],
                         result_count |-> PyInt(Len(run.messages)),
                         messages |-> PyList(run.messages)]),
                 run.remote)

\* chat_id = resolve_chat_id(args["chat_id"]) if args.get("chat_id") else None
SearchChat(args) ==
  IF Truthy(ArgGet(args, "chat_id", PyNone))
  THEN resolve_chat_id(args["chat_id"]) ELSE PyNone

\* the remote call made for from_user, if any
SearchPre(args) ==
  IF Truthy(ArgGet(args, "from_user", PyNone)) THEN <<"get_entity">> ELSE <<>>

handle_search_messages(args, env) ==
  IF "query" \notin DOMAIN args THEN Raised(MissingKey("query"), <<>>)
  ELSE IF Len(SearchPre(args)) > 0 /\ RaisesAt(env, "get_entity").cls # "none"
  THEN Raised(RaisesAt(env, "get_entity"), SearchPre(args))
  ELSE IF RaisesAt(env, "iter_messages").cls # "none"
  THEN Raised(RaisesAt(env, "iter_messages"), SearchPre(args) \o <<"iter_messages">>)
  ELSE SearchReply(args,
         SearchLoop(iter_messages(env, ArgGet(args, "limit", PyInt(20))), <<>>,
                    SearchChat(args), env, SearchPre(args) \o <<"iter_messages">>))

RECURSIVE FormatReplies(_, _, _, _)
\* replies.append(await format_message(msg)), f being the outcome of format_message
FormatStep(stream, replies, env, remote, f) ==
  IF f.raised THEN LoopEnd(f.exc, replies, 0, remote \o f.remote)
  ELSE FormatReplies(Tail(stream), Append(replies, f.value), env, remote \o f.remote)

\* the async for of handle_read_thread
FormatReplies(stream, replies, env, remote) ==
  IF Len(stream) = 0 THEN LoopEnd(NoExc, replies, 0, remote)
  ELSE FormatStep(stream, replies, env, remote, format_message(Head(stream), env))

\* what handle_read_thread does once its loop has ended as run
ThreadReply(parent_formatted, run) ==
  IF run.raised THEN Raised(run.exc, run.remote)
  ELSE JsonReply(PyDict([parent_message |-> parent_formatted,
                         reply_count |-> PyInt(Len(run.messages)),
                         replies |-> PyList(Reverse(run.messages))]),
                 run.remote)

\* handle_read_thread from the formatting of the parent on, parent being the
\* outcome of format_message(parent)
ThreadReplies(args, env, parent) ==
  IF parent.raised THEN Raised(parent.exc, <<"get_messages">> \o parent.remote)
  ELSE IF RaisesAt(env, "iter_messages").cls # "none"
  THEN Raised(RaisesAt(env, "iter_messages"),
              <<"get_messages">> \o parent.remote \o <<"iter_messages">>)
  ELSE ThreadReply(parent.value,
         FormatReplies(iter_messages(env, ArgGet(args, "limit", PyInt(20))), <<>>, env,
                       <<"get_messages">> \o parent.remote \o <<"iter_messages">>))

handle_read_thread(args, env) ==
  IF "chat_id" \notin DOMAIN args THEN Raised(MissingKey("chat_id"), <<>>)
  ELSE IF "message_id" \notin DOMAIN args THEN Raised(MissingKey("message_id"), <<>>)
  ELSE IF RaisesAt(env, "get_messages").cls # "none"
  THEN Raised(RaisesAt(env, "get_messages"), <<"get_messages">>)
  ELSE IF ~Truthy(env.parent)
  THEN TextReply(<<"Message ">> \o StrOf(args["message_id"]) \o <<" not found.">>,
                 <<"get_messages">>)
  ELSE ThreadReplies(args, env, format_message(env.parent, env))

handle_send_message(args, env) ==
  IF "chat_id" \notin DOMAIN args THEN Raised(MissingKey("chat_id"), <<>>)
  ELSE IF "text" \notin DOMAIN args THEN Raised(MissingKey("text"), <<>>)
  ELSE IF RaisesAt(env, "send_message").cls # "none"
  THEN Raised(RaisesAt(env, "send_message"), <<"send_message">>)
  ELSE JsonReply(PyDict([status |-> PyStr(<<"sent">>),
                         message_id |-> PyInt(env.sent.id),
                         chat_id |-> args["chat_id"],
                         date |-> format_timestamp(env.sent.date)]),
                 <<"send_message">>)

handle_edit_message(args, env) ==
  IF "chat_id" \notin DOMAIN args THEN Raised(MissingKey("chat_id"), <<>>)
  ELSE IF "message_id" \notin DOMAIN args THEN Raised(MissingKey("message_id"), <<>>)
  ELSE IF "new_text" \notin DOMAIN args THEN Raised(MissingKey("new_text"), <<>>)
  ELSE IF RaisesAt(env, "edit_message").cls # "none"
  THEN Raised(RaisesAt(env, "edit_message"), <<"edit_message">>)
  ELSE JsonReply(PyDict([status |-> PyStr(<<"edited">>),
                         message_id |-> PyInt(env.sent.id),
                         chat_id |-> args["chat_id"],
                         new_text |-> PyStr(Slice(args["new_text"].v, 100)),
                         date |-> format_timestamp(env.sent.date)]),
                 <<"edit_message">>)

handle_delete_message(args, env) ==
  IF "chat_id" \notin DOMAIN args THEN Raised(MissingKey("chat_id"), <<>>)
  ELSE IF "message_id" \notin DOMAIN args THEN Raised(MissingKey("message_id"), <<>>)
  ELSE IF RaisesAt(env, "delete_messages").cls # "none"
  THEN Raised(RaisesAt(env, "delete_messages"), <<"delete_messages">>)
  ELSE JsonReply(PyDict([status |-> PyStr(<<"deleted">>),
                         message_id |-> args["message_id"],
                         chat_id |-> args["chat_id"]]),
                 <<"delete_messages">>)

\* the dict of one user of result.users
Contact(user) ==
  PyDict([id |-> PyInt(user.id), first_name |-> user.first_name,
          last_name |-> user.last_name, username |-> user.username,
          phone |-> user.phone, bot |-> PyBool(user.bot),
          status |-> get_user_status(user)])

handle_search_contacts(args, env) ==
  IF "query" \notin DOMAIN args THEN Raised(MissingKey("query"), <<>>)
  ELSE IF RaisesAt(env, "SearchRequest").cls # "none"
  THEN Raised(RaisesAt(env, "SearchRequest"), <<"SearchRequest">>)
  ELSE LET contacts == [i \in 1..Len(env.users) |-> Contact(env.users[i])]
       IN  JsonReply(PyDict([query |-> args["query"],
                             result_count |-> PyInt(Len(contacts)),
                             contacts |-> PyList(contacts)]),
                     <<"SearchRequest">>)

handle_get_user_info(args, env) ==
  IF "user_id" \notin DOMAIN args THEN Raised(MissingKey("user_id"), <<>>)
  ELSE IF RaisesAt(env, "get_entity").cls # "none"
  THEN Raised(RaisesAt(env, "get_entity"), <<"get_entity">>)
  ELSE
    LET entity == env.entity
        info == Contact(entity).d
    IN  IF entity.cls # "User"
        THEN TextReply(<<"Entity ">> \o StrOf(args["user_id"])
                         \o <<" is not a user (it's a ", entity.cls, ").">>,
                       <<"get_entity">>)
        ELSE IF RaisesAt(env, "GetFullUserRequest").cls # "none"
        THEN JsonReply(PyDict(info), <<"get_entity", "GetFullUserRequest">>)
        ELSE JsonReply(PyDict(DictSet(info, "bio", env.full.about)),
                       <<"get_entity", "GetFullUserRequest">>)

(* ----------------------------- dispatcher ----------------------------- *)

\* the names list_tools advertises
ToolNames == {"telegram_list_chats", "telegram_get_chat_info",
              "telegram_read_messages", "telegram_search_messages",
              "telegram_read_thread", "telegram_send_message",
              "telegram_edit_message", "telegram_delete_message",
              "telegram_search_contacts", "telegram_get_user_info"}

\* a plausible slip: the diagnostic does not say which name was unknown
UnknownToolAnonymous(name) == TextReply(<<"Unknown tool">>, <<>>)

\* the else branch of call_tool
UnknownTool(name) == TextReply(<<"Unknown tool: ", name>>, <<>>)

\* the if/elif chain of call_tool: the handler a name is routed to
Route(name, args, env) ==
  CASE name = "telegram_list_chats" -> handle_list_chats(args, env)
    [] name = "telegram_get_chat_info" -> handle_get_chat_info(args, env)
    [] name = "telegram_read_messages" -> handle_read_messages(args, env)
    [] name = "telegram_search_messages" -> handle_search_messages(args, env)
    [] name = "telegram_read_thread" -> handle_read_thread(args, env)
    [] name = "telegram_send_message" -> handle_send_message(args, env)
    [] name = "telegram_edit_message" -> handle_edit_message(args, env)
    [] name = "telegram_delete_message" -> handle_delete_message(args, env)
    [] name = "telegram_search_contacts" -> handle_search_contacts(args, env)
    [] name = "telegram_get_user_info" -> handle_get_user_info(args, env)
    [] OTHER -> UnknownTool(name)

\* the handler the if/elif chain invokes for a name, "none" for the else branch
HandlerOf(name) == IF name \in ToolNames THEN name ELSE "none"

\* a plausible slip: the clause for MessageAuthorRequiredError is missing, so
\* that rejection falls through to the clause for Exception
RecoverAuthorUnmapped(exc) ==
  IF IsInstance(exc, "ChatAdminRequiredError")
  THEN <<TextContent(Plain(<<"Error: Admin privileges required for this action.">>))>>
  ELSE IF IsInstance(exc, "ChannelPrivateError")
  THEN <<TextContent(Plain(<<"Error: This channel/group is private or you're not a member.">>))>>
  ELSE IF IsInstance(exc, "MessageNotModifiedError")
  THEN <<TextContent(Plain(<<"Error: Message content is the same - nothing to update.">>))>>
  ELSE <<TextContent(Plain(<<"Error: ">> \o exc.msg))>>

\* the except clauses of call_tool, in order ("-" stands for the dash of the
\* third message)
Recover(exc) ==
  IF IsInstance(exc, "ChatAdminRequiredError")
  THEN <<TextContent(Plain(<<"Error: Admin privileges required for this action.">>))>>
  ELSE IF IsInstance(exc, "ChannelPrivateError")
  THEN <<TextContent(Plain(<<"Error: This channel/group is private or you're not a member.">>))>>
  ELSE IF IsInstance(exc, "MessageNotModifiedError")
  THEN <<TextContent(Plain(<<"Error: Message content is the same - nothing to update.">>))>>
  ELSE IF IsInstance(exc, "MessageAuthorRequiredError")
  THEN <<TextContent(Plain(<<"Error: You can only edit/delete your own messages.">>))>>
  ELSE IF IsInstance(exc, "ValueError")
  THEN <<TextContent(Plain(<<"Error: ">> \o exc.msg))>>
  ELSE <<TextContent(Plain(<<"Error: ">> \o exc.msg))>>

NotConnectedText == Plain(<<"Not connected to Telegram. Please restart the server.">>)

\* a plausible slip: the guard looks at the handle only, not at is_connected()
UnliveHandleOnly(cl, conn) == cl = "None"

\* the guard of call_tool: not telegram.client or not telegram.client.is_connected()
Unlive(cl, conn) == cl = "None" \/ ~conn

\* call_tool(name, arguments) with the wrapper holding cl, whose transport is
\* connected iff conn: what it returns or raises, the handler it invoked, whether
\* that handler failed, and the remote calls made
call_tool(name, args, env, cl, conn) ==
  IF Unlive(cl, conn)
  THEN [raised |-> FALSE, exc |-> NoExc, value |-> <<TextContent(NotConnectedText)>>,
        handler |-> "none", failed |-> NoExc, remote |-> <<>>]
  ELSE LET h == Route(name, args, env)
       IN  IF h.raised /\ IsInstance(h.exc, "Exception")
           THEN [raised |-> FALSE, exc |-> NoExc, value |-> Recover(h.exc),
                 handler |-> HandlerOf(name), failed |-> h.exc, remote |-> h.remote]
           ELSE [raised |-> h.raised, exc |-> h.exc, value |-> h.value,
                 handler |-> HandlerOf(name), failed |-> NoExc, remote |-> h.remote]

(* --------------------------- client wrapper --------------------------- *)

\* the body of the try block of connect(): the value returned or the exception
\* raised, and what it leaves behind: the handle assigned to self.client, whether
\* client.connect() opened the connection
ConnectBody(cfg, env) ==
  LET none == [client |-> "None", opened |-> FALSE]
      made == [client |-> "client", opened |-> FALSE]
      open == [client |-> "client", opened |-> TRUE]
  IN  IF ~Truthy(cfg.api_id) \/ ~Truthy(cfg.api_hash) \/ ~Truthy(cfg.session)
      THEN [out |-> Returned(PyBool(FALSE), <<>>)] @@ none
      ELSE IF ~env.session_ok
      THEN [out |-> Raised(Exc("ValueError", <<"Not a valid string">>), <<>>)] @@ none
      ELSE IF ~IntAccepts(cfg.api_id.v)
      THEN [out |-> Raised(Exc("ValueError", <<"invalid literal for int()">>), <<>>)] @@ none
      ELSE IF env.transport = "raise"
      THEN [out |-> Raised(env.error, <<"connect">>)] @@ made
      ELSE IF env.authorized = "raise"
      THEN [out |-> Raised(env.error, <<"connect", "is_user_authorized">>)] @@ open
      ELSE IF env.authorized = "no"
      THEN [out |-> Returned(PyBool(FALSE), <<"connect", "is_user_authorized">>)] @@ open
      ELSE IF env.me = "raise"
      THEN [out |-> Raised(env.error, <<"connect", "is_user_authorized", "get_me">>)] @@ open
      ELSE IF env.me = "none"
      THEN [out |-> Raised(Exc("AttributeError", <<"'NoneType' object has no attribute 'first_name'">>),
                           <<"connect", "is_user_authorized", "get_me">>)] @@ open
      ELSE [out |-> Returned(PyBool(TRUE),
                             <<"connect", "is_user_authorized", "get_me">>)] @@ open

\* a plausible slip: connect() without its except clause
ConnectUncaught(cfg, env) == ConnectBody(cfg, env)

\* TelegramClientWrapper.connect: except Exception turns a failure into False
connect(cfg, env) ==
  LET body == ConnectBody(cfg, env)
  IN  IF body.out.raised /\ IsInstance(body.out.exc, "Exception")
      THEN [body EXCEPT !.out = Returned(PyBool(FALSE), body.out.remote)]
      ELSE body

\* TelegramClientWrapper.disconnect: the number of client.disconnect() calls made
disconnect(cl) == IF cl # "None" THEN 1 ELSE 0

(* ------------------------ the remote environment ---------------------- *)

Entity(cls, id, bot, megagroup) ==
  [t |-> "entity", cls |-> cls, id |-> id,
   first_name |-> IF cls = "User" THEN PyStr(<<"Ann">>) ELSE PyNone,
   last_name |-> PyNone,
   username |-> PyNone,
   title |-> IF cls = "User" THEN PyNone ELSE PyStr(<<"Team">>),
   phone |-> PyNone, bot |-> bot, megagroup |-> megagroup,
   status |-> PyNone, participants_count |-> PyNone]

Ann == Entity("User", 7, FALSE, FALSE)

Entities == {Ann, Entity("User", 8, TRUE, FALSE), Entity("Chat", 9, FALSE, FALSE),
             Entity("Channel", 10, FALSE, FALSE), Entity("Channel", 11, FALSE, TRUE)}

\* a text message of Ann's with this id and date
Msg(id, date) ==
  [t |-> "message", id |-> id, sender |-> Ann, date |-> PyInt(date),
   text |-> PyStr(<<"hi">>), reply_to |-> PyNone, media |-> PyNone,
   forward |-> PyNone, pinned |-> FALSE, chat |-> PyNone, chat_id |-> 0]

\* the stream of messages dated dates[1], dates[2], ...: ids fall along the stream
StreamOf(dates) == [i \in 1..Len(dates) |-> Msg(Len(dates) + 1 - i, dates[i])]

Dialog(entity) ==
  [t |-> "dialog", entity |-> entity, id |-> entity.id,
   title |-> entity.title, name |-> Or(entity.first_name, entity.title),
   unread_count |-> 0, message |-> Msg(1, 0)]

\* a remote service that answers every call, with little to show
QuietEnv ==
  [raises |-> <<>>, dialogs |-> <<Dialog(Ann)>>, entity |-> Ann,
   full |-> [about |-> PyStr(<<"about">>), participants_count |-> PyInt(2)],
   stream |-> <<Msg(1, 0)>>, parent |-> Msg(1, 0), sent |-> Msg(2, 1),
   users |-> <<Ann>>]

\* the messages an exception carries: str(e) of one and of two lines
ExcMessages == {<<"boom">>, <<"first", "\n", "second">>}

\* the failures the remote client raises: a rejection of each of the four kinds,
\* a value error, and another failure
RemoteErrors ==
  {Exc(cls, <<"rejected">>) : cls \in RpcErrors}
  \cup {Exc("ValueError", msg) : msg \in ExcMessages}
  \cup {Exc("ConnectionError", <<"boom">>)}

\* the call sites of telegram.client in each handler
Sites(name) ==
  CASE name = "telegram_list_chats" -> {"get_dialogs"}
    [] name = "telegram_get_chat_info" ->
         {"get_entity", "GetFullChannelRequest", "GetFullChatRequest", "iter_messages"}
    [] name = "telegram_read_messages" -> {"iter_messages", "get_sender"}
    [] name = "telegram_search_messages" -> {"get_entity", "iter_messages", "get_sender", "get_chat"}
    [] name = "telegram_read_thread" -> {"get_messages", "get_sender", "iter_messages"}
    [] name = "telegram_send_message" -> {"send_message"}
    [] name = "telegram_edit_message" -> {"edit_message"}
    [] name = "telegram_delete_message" -> {"delete_messages"}
    [] name = "telegram_search_contacts" -> {"SearchRequest"}
    [] name = "telegram_get_user_info" -> {"get_entity", "GetFullUserRequest"}
    [] OTHER -> {}

\* the remote service during one call of the tool: it answers every call, or one
\* call site raises
EnvsOf(name) ==
  {[QuietEnv EXCEPT !.entity = e, !.parent = p] :
      e \in (IF name \in {"telegram_get_chat_info", "telegram_get_user_info"}
             THEN Entities ELSE {Ann}),
      p \in (IF name = "telegram_read_thread" THEN {Msg(1, 0), PyNone} ELSE {Msg(1, 0)})}
  \cup {[QuietEnv EXCEPT !.raises = (site :> exc)] :
           site \in Sites(name), exc \in RemoteErrors}

\* the arguments the host sends with a call of the tool: the required ones, and
\* for some tools a call that lacks one or carries a date that is none
ArgsOf(name) ==
  LET chat == PyStr(<<"@", "a">>)
      text == PyStr(<<"hello">>)
  IN  CASE name = "telegram_list_chats" -> {<<>>}
        [] name = "telegram_get_chat_info" -> {[chat_id |-> chat]}
        [] name = "telegram_read_messages" ->
             {[chat_id |-> chat],
              [chat_id |-> chat, min_date |-> PyStr(<<"soon">>)],
              [chat_id |-> chat, max_date |-> PyStr(<<"soon">>)]}
        [] name = "telegram_search_messages" ->
             {[query |-> text, chat_id |-> PyInt(0), from_user |-> chat]}
        [] name = "telegram_read_thread" -> {[chat_id |-> chat, message_id |-> PyInt(5)]}
        [] name = "telegram_send_message" -> {[chat_id |-> chat, text |-> text], [chat_id |-> chat]}
        [] name = "telegram_edit_message" ->
             {[chat_id |-> chat, message_id |-> PyInt(5), new_text |-> text]}
        [] name = "telegram_delete_message" -> {[chat_id |-> chat, message_id |-> PyInt(5)]}
        [] name = "telegram_search_contacts" -> {[query |-> text]}
        [] name = "telegram_get_user_info" -> {[user_id |-> PyInt(7)]}
        [] OTHER -> {<<>>, [chat_id |-> chat]}

\* the names a host may call: the registered ones and two that are not
CalledNames == ToolNames \cup {"telegram_ban_user", ""}

Requests ==
  UNION {{[op |-> "call_tool", name |-> name, args |-> args, env |-> env] :
            args \in ArgsOf(name), env \in EnvsOf(name)} : name \in CalledNames}

\* the credentials of the environment, read when the module is loaded
Configs ==
  [api_id : {PyNone, PyStr(<<>>), PyStr(<<"1">>), PyStr(<<"a">>)},
   api_hash : {PyNone, PyStr(<<>>), PyStr(<<"a">>)},
   session : {PyNone, PyStr(<<>>), PyStr(<<"a">>)}]

\* what the remote service does during connect()
ConnectEnvs ==
  [session_ok : BOOLEAN, transport : {"ok", "raise"},
   authorized : {"yes", "no", "raise"}, me : {"ok", "none", "raise"},
   error : {Exc("ConnectionError", <<"boom">>)}]

(* ------------------------------- main --------------------------------- *)

NoCall == [op |-> "none"]

NoOutcome == [raised |-> FALSE, exc |-> NoExc, value |-> <<>>,
              handler |-> "none", failed |-> NoExc, remote |-> <<>>]

Init ==
  /\ pc = "start"
  /\ config \in Configs
  /\ client = "None"
  /\ connected = FALSE
  /\ connectResult = "none"
  /\ connectCalls = 0
  /\ disconnectCalls = 0
  /\ opened = FALSE
  /\ listed = 0
  /\ served = 0
  /\ call = NoCall
  /\ outcome = NoOutcome

\* a plausible slip: main goes on to serve whatever connect() returned
AfterConnectAlways(ok) == "serving"

\* if not await telegram.connect(): return
AfterConnect(ok) == IF ok THEN "serving" ELSE "done"

\* main calls telegram.connect()
MainConnect ==
  /\ pc = "start"
  /\ \E env \in ConnectEnvs :
       LET c == connect(config, env)
       IN  /\ call' = [op |-> "connect", env |-> env]
           /\ client' = c.client
           /\ opened' = c.opened
           /\ connected' = c.opened
           /\ connectResult' = IF c.out.raised THEN "raised"
                                ELSE IF c.out.value.v THEN "true" ELSE "false"
           /\ pc' = IF c.out.raised THEN "failed" ELSE AfterConnect(c.out.value.v)
  /\ connectCalls' = connectCalls + 1
  /\ UNCHANGED <<config, disconnectCalls, listed, served, outcome>>

\* the serve loop answers a tools/list request
ListTools ==
  /\ pc = "serving"
  /\ listed < MaxLists
  /\ listed' = listed + 1
  /\ UNCHANGED <<pc, config, client, connected, connectResult, connectCalls,
                 disconnectCalls, opened, served, call, outcome>>

\* how the call before this one ended: "none" when there was none, "failed" when
\* it did not reach the end of a handler, "returned" when it did
PriorCall ==
  IF call.op # "call_tool" THEN "none"
  ELSE IF outcome.handler # "none" /\ outcome.failed.cls = "none" THEN "returned"
  ELSE "failed"

\* a plausible slip: an except clause of call_tool drops the handle of the wrapper
HandleDroppedOnFailure(cl, out) == IF out.failed.cls # "none" THEN "None" ELSE cl

\* telegram.client after a call of call_tool: neither the dispatcher nor a
\* handler assigns it or calls disconnect()
HandleAfterCall(cl, out) == cl

\* the serve loop dispatches a tools/call request to call_tool
CallTool ==
  /\ pc = "serving"
  /\ served < MaxCalls
  /\ \E req \in Requests :
       /\ call' = [client |-> client, connected |-> connected, prior |-> PriorCall] @@ req
       /\ outcome' = call_tool(req.name, req.args, req.env, client, connected)
       /\ client' = HandleAfterCall(client, outcome')
  /\ served' = served + 1
  /\ UNCHANGED <<pc, config, connected, connectResult, connectCalls,
                 disconnectCalls, opened, listed>>

\* the transport of the client drops: is_connected() turns false
ConnectionLost ==
  /\ pc = "serving"
  /\ connected
  /\ connected' = FALSE
  /\ UNCHANGED <<pc, config, client, connectResult, connectCalls,
                 disconnectCalls, opened, listed, served, call, outcome>>

\* the client reconnects on its own: is_connected() turns true again
ConnectionRestored ==
  /\ pc = "serving"
  /\ ~connected
  /\ connected' = TRUE
  /\ UNCHANGED <<pc, config, client, connectResult, connectCalls,
                 disconnectCalls, opened, listed, served, call, outcome>>

\* the finally block of main: await telegram.disconnect()
Finally(next) ==
  /\ disconnectCalls' = disconnectCalls + disconnect(client)
  /\ connected' = IF client # "None" THEN FALSE ELSE connected
  /\ pc' = next
  /\ UNCHANGED <<config, client, connectResult, connectCalls, opened,
                 listed, served, call, outcome>>

\* server.run returns: the host closed the streams
MainServeEnd == pc = "serving" /\ Finally("done")

\* stdio_server or server.run raises; the exception leaves main after the finally
MainServeFail == pc = "serving" /\ Finally("failed")

Next ==
  \/ MainConnect
  \/ ListTools
  \/ CallTool
  \/ ConnectionLost
  \/ ConnectionRestored
  \/ MainServeEnd
  \/ MainServeFail

Spec == Init /\ [][Next]_vars

(* --------------------- claims about the dispatcher -------------------- *)

\* the state right after a call of call_tool
Called == call.op = "call_tool"

\* the wrapper held no client, or its client was not connected, when the call came
CalledUnlive == Called /\ (call.client = "None" \/ ~call.connected)

\* the value returned is exactly one text block
OneTextBlock == Len(outcome.value) = 1 /\ outcome.value[1].type = "text"

\* the fragments of the text of the block returned
Body == outcome.value[1].text

\* the number of lines of a text given by its fragments
Lines(frags) == 1 + Cardinality({i \in 1..Len(frags) : frags[i] = "\n"})

\* C1: a call that finds no client, or a client that is not connected, returns
\* exactly one text block with the fixed not-connected diagnostic, whatever the
\* tool name and the arguments; no handler is invoked and no remote call is made.
C1_UnliveShortCircuits ==
  CalledUnlive =>
    /\ ~outcome.raised
    /\ OneTextBlock
    /\ Body.fmt = "plain"
    /\ Body.frags = <<"Not connected to Telegram. Please restart the server.">>
    /\ outcome.handler = "none"
    /\ outcome.remote = <<>>

\* C1 witness: a registered tool and an unknown name were called after the
\* connection dropped
C1_Witness ==
  /\ CalledUnlive
  /\ call.name = "telegram_send_message"
  /\ "text" \in DOMAIN call.args
  /\ served = 2

\* C2: whatever a handler raises, call_tool returns (never raises) exactly one
\* text block: the fixed message of the kind for the four rejection kinds,
\* "Error: <message>" for a value error and for any other failure.
C2_FailuresMapped ==
  (Called /\ outcome.failed.cls # "none") =>
    /\ ~outcome.raised
    /\ OneTextBlock
    /\ Body.fmt = "plain"
    /\ Body.frags =
         CASE outcome.failed.cls = "ChatAdminRequiredError" ->
                <<"Error: Admin privileges required for this action.">>
           [] outcome.failed.cls = "ChannelPrivateError" ->
                <<"Error: This channel/group is private or you're not a member.">>
           [] outcome.failed.cls = "MessageNotModifiedError" ->
                <<"Error: Message content is the same - nothing to update.">>
           [] outcome.failed.cls = "MessageAuthorRequiredError" ->
                <<"Error: You can only edit/delete your own messages.">>
           [] OTHER -> <<"Error: ">> \o outcome.failed.msg

\* C2 witness: the remote service rejected an edit of a message of someone else
C2_Witness ==
  /\ Called
  /\ call.name = "telegram_edit_message"
  /\ outcome.failed.cls = "MessageAuthorRequiredError"
  /\ outcome.remote = <<"edit_message">>

\* C3 as stated: a call with a name that is not registered returns one text
\* block naming the unknown tool, whatever the state of the connection.
C3_AsStated ==
  (Called /\ call.name \notin ToolNames) =>
    /\ ~outcome.raised
    /\ OneTextBlock
    /\ Body.frags = <<"Unknown tool: ", call.name>>

\* C3 amended: on a live connection, a call with a name that is not registered
\* returns (never raises) one text block naming the unknown tool; no handler is
\* invoked.
C3_UnknownToolNamedWhenLive ==
  (Called /\ ~CalledUnlive /\ call.name \notin ToolNames) =>
    /\ ~outcome.raised
    /\ OneTextBlock
    /\ Body.fmt = "plain"
    /\ Body.frags = <<"Unknown tool: ", call.name>>
    /\ outcome.handler = "none"

\* C3 witness: an unknown name called with arguments on a live connection
C3_Witness ==
  /\ Called /\ ~CalledUnlive
  /\ call.name = "telegram_ban_user"
  /\ "chat_id" \in DOMAIN call.args

\* the handler of the call was invoked and returned
HandlerReturned == Called /\ outcome.handler # "none" /\ outcome.failed.cls = "none"

\* the call did not reach the end of a handler: the connection was not live, the
\* name was unknown, or the handler raised
CallFailed == Called /\ ~HandlerReturned

\* C4 as stated: a call whose handler completes returns one text block holding a
\* JSON object; a call that fails returns one text block holding a single line
\* that is not JSON.
C4_AsStated ==
  /\ Called => OneTextBlock
  /\ HandlerReturned => (Body.fmt = "json" /\ Body.value.t = "dict")
  /\ CallFailed => (Body.fmt = "plain" /\ Lines(Body.frags) = 1)

\* the two diagnostics a handler returns instead of a record
ReturnsDiagnostic ==
  \/ call.name = "telegram_read_thread" /\ call.env.parent.t = "none"
  \/ call.name = "telegram_get_user_info" /\ call.env.entity.cls # "User"

\* C4 amended: every call returns exactly one text block.  When the handler
\* returns, the body is a JSON document: a JSON array for list_chats, a JSON object
\* for the other tools, except that read_thread with no parent message and
\* get_user_info on an entity that is not a user return a one-line diagnostic that
\* is not JSON.  A call that fails returns a body that is not JSON: a fixed
\* one-line message, or "Error: " followed by the message of the failure, which
\* has as many lines as that message.
C4_ResponseShape ==
  /\ Called => OneTextBlock
  /\ (HandlerReturned /\ ReturnsDiagnostic) =>
        (Body.fmt = "plain" /\ Lines(Body.frags) = 1)
  /\ (HandlerReturned /\ ~ReturnsDiagnostic) =>
        /\ Body.fmt = "json"
        /\ Body.value.t = (IF call.name = "telegram_list_chats" THEN "list" ELSE "dict")
  /\ CallFailed =>
        /\ Body.fmt = "plain"
        /\ Lines(Body.frags) = (IF outcome.failed.cls \in {"none"} \cup RpcErrors
                                THEN 1 ELSE Lines(outcome.failed.msg))

\* C4 witness: list_chats returned its array after a call that failed with a
\* message of two lines
C4_Witness ==
  /\ HandlerReturned
  /\ call.name = "telegram_list_chats"
  /\ Body.value.t = "list"
  /\ Len(Body.value.v) = 1
  /\ served = 2

(* ----------------------- claims about the life cycle ------------------ *)

\* the state right after connect() ended
Connected == call.op = "connect"

CredentialsPresent ==
  \A k \in {"api_id", "api_hash", "session"} :
     config[k].t = "str" /\ config[k].v # <<>>

\* C5: connect() never raises; it returns false when a credential is missing,
\* when the transport connection fails and when the session is not authorized;
\* it returns true only when the three credentials are present, the transport
\* connected, the session is authorized and the lookup of the own identity
\* succeeded.
C5_ConnectFailsClosed ==
  Connected =>
    /\ connectResult \in {"true", "false"}
    /\ ~CredentialsPresent => connectResult = "false"
    /\ call.env.transport = "raise" => connectResult = "false"
    /\ call.env.authorized = "no" => connectResult = "false"
    /\ connectResult = "true" =>
          /\ CredentialsPresent
          /\ call.env.transport = "ok"
          /\ call.env.authorized = "yes"
          /\ call.env.me = "ok"
          /\ opened /\ client = "client"

\* C5 witness: the transport connected and the authorization check itself failed
C5_Witness ==
  /\ Connected
  /\ CredentialsPresent
  /\ call.env.transport = "ok"
  /\ call.env.authorized = "raise"
  /\ opened
  /\ connectResult = "false"

\* C6: when connect() fails the run ends at once: the serve loop never starts,
\* no tool listing and no tool call is served, and connect() is not tried again.
C6_FailedConnectIsFatal ==
  /\ connectCalls <= 1
  /\ connectResult = "false" =>
        /\ pc = "done"
        /\ listed = 0
        /\ served = 0
        /\ Connected
        /\ outcome = NoOutcome

\* C6 witness: connect() failed on a session that is not authorized, and main is over
C6_Witness ==
  /\ connectResult = "false"
  /\ call.env.authorized = "no"
  /\ opened
  /\ pc = "done"

\* C7: when main is over and connect() had opened the connection of the client,
\* disconnect was called on it exactly once.
C7_DisconnectedOnEveryExit ==
  (pc \in {"done", "failed"} /\ opened) => disconnectCalls = 1

(* ------------------- resolve_chat_id on its own ----------------------- *)

\* the chat references given to resolve_chat_id: every string over Chars of at
\* most MaxLen characters, some integers, None
ResolveInputs ==
  {PyStr(str) : str \in SeqsUpTo(Chars, MaxLen)}
  \cup {PyInt(n) : n \in -1..1} \cup {PyNone}

\* a server that serves, with a live connection
Serving ==
  /\ config = [api_id |-> PyStr(<<"1">>), api_hash |-> PyStr(<<"a">>),
               session |-> PyStr(<<"a">>)]
  /\ client = "client"
  /\ connected = TRUE
  /\ connectResult = "true"
  /\ connectCalls = 1
  /\ disconnectCalls = 0
  /\ opened = TRUE
  /\ listed = 0
  /\ served = 0

ResolveInit ==
  /\ Serving
  /\ pc = "resolve"
  /\ call \in {[op |-> "resolve_chat_id", input |-> x] : x \in ResolveInputs}
  /\ outcome = NoOutcome

\* a handler normalises the chat reference it was given
Resolve ==
  /\ pc = "resolve"
  /\ outcome' = Returned(resolve_chat_id(call.input), <<>>)
  /\ pc' = "resolved"
  /\ UNCHANGED <<config, client, connected, connectResult, connectCalls,
                 disconnectCalls, opened, listed, served, call>>

SpecResolve == ResolveInit /\ [][Resolve]_vars

\* the number of "@" a string starts with
RECURSIVE LeadingMarkers(_)
LeadingMarkers(str) ==
  IF Len(str) > 0 /\ Head(str) = "@" THEN 1 + LeadingMarkers(Tail(str)) ELSE 0

\* C9 as stated: an integer-valued string resolves to its integer, any other
\* string to itself less exactly one leading "@" if it starts with one, and a
\* value that is no string to itself.
C9_AsStated ==
  pc = "resolved" =>
    LET x == call.input
        r == outcome.value
    IN  IF x.t # "str" THEN r = x
        ELSE IF IntAccepts(x.v) THEN r = PyInt(IntParse(x.v))
        ELSE r = PyStr(SubSeq(x.v, 1 + Min(1, LeadingMarkers(x.v)), Len(x.v)))

\* C9 amended: a string that int() accepts resolves to its integer, any other
\* string to itself less all of its leading "@" characters, and a value that is no
\* string to itself.
C9_ResolveChatId ==
  pc = "resolved" =>
    LET x == call.input
        r == outcome.value
    IN  IF x.t # "str" THEN r = x
        ELSE IF IntAccepts(x.v) THEN r = PyInt(IntParse(x.v))
        ELSE /\ r.t = "str"
             /\ r.v = SubSeq(x.v, 1 + LeadingMarkers(x.v), Len(x.v))
             /\ (Len(r.v) > 0 => r.v[1] # "@")

\* C9 witness: a handle with two leading markers was resolved to the bare handle
C9_Witness ==
  /\ pc = "resolved"
  /\ call.input = PyStr(<<"@", "@", "a">>)
  /\ outcome.value = PyStr(<<"a">>)

(* ------------------- read_messages on its own ------------------------- *)

\* a "%Y-%m-%d" string naming the day
DateStr(day) == [t |-> "str", v |-> <<ToString(day)>>, day |-> day]

\* the days a min_date names: those of the instants, and the day after
Days == 0..((MaxInstant \div TicksPerDay) + 1)

ReadArgs ==
  {[chat_id |-> PyInt(5), limit |-> PyInt(limit)] : limit \in 0..MaxLimit}
  \cup {[chat_id |-> PyInt(5), limit |-> PyInt(limit), min_date |-> DateStr(day)] :
           limit \in 0..MaxLimit, day \in Days}

\* the chats read: every stream of at most MaxStream messages, in any order of dates
ReadEnvs ==
  {[QuietEnv EXCEPT !.stream = StreamOf(dates)] :
     dates \in SeqsUpTo(0..MaxInstant, MaxStream)}

ReadInit ==
  /\ Serving
  /\ pc = "read"
  /\ call \in {[op |-> "call_tool", name |-> "telegram_read_messages",
                 client |-> "client", connected |-> TRUE,
                 args |-> args, env |-> env] : args \in ReadArgs, env \in ReadEnvs}
  /\ outcome = NoOutcome

\* the dispatcher serves the read_messages call; consumed is the number of
\* elements its handler took from the iterator
ReadMessages ==
  /\ pc = "read"
  /\ outcome' = [consumed |-> ReadRun(call.args, call.env).consumed]
                   @@ call_tool(call.name, call.args, call.env, client, connected)
  /\ pc' = "read_done"
  /\ served' = served + 1
  /\ UNCHANGED <<config, client, connected, connectResult, connectCalls,
                 disconnectCalls, opened, listed, call>>

SpecRead == ReadInit /\ [][ReadMessages]_vars

\* the stream the remote source yields to the call
Yielded == SubSeq(call.env.stream, 1, Min(call.args["limit"].v, Len(call.env.stream)))

\* the stream is in descending order of date
Descending == \A i \in 1..(Len(Yielded) - 1) : Yielded[i].date.v >= Yielded[i + 1].date.v

\* the instant a min_date stands for: the start of its day
Cutoff == call.args["min_date"].day * TicksPerDay

\* the number of messages of the stream dated at or after the cutoff
Recent == Cardinality({i \in 1..Len(Yielded) : Yielded[i].date.v >= Cutoff})

\* the ids of the messages returned, in order
ReturnedIds ==
  LET messages == Body.value.d["messages"].v
  IN  [i \in 1..Len(messages) |-> messages[i].d["id"].v]

\* C10: with a min_date, on a stream in descending order of date, read_messages
\* returns exactly the prefix of the stream dated at or after the cutoff, and
\* takes from the stream nothing beyond the first message older than the cutoff.
C10_MinDatePrefix ==
  (pc = "read_done" /\ "min_date" \in DOMAIN call.args /\ Descending) =>
    /\ HandlerReturned
    /\ Body.fmt = "json"
    /\ ReturnedIds = [i \in 1..Recent |-> Yielded[i].id]
    /\ Body.value.d["message_count"] = PyInt(Recent)
    /\ outcome.consumed = Min(Recent + 1, Len(Yielded))

\* C10 witness: of three messages the first is dated at the cutoff and the second
\* before it; one message is returned and the third is never taken
C10_Witness ==
  /\ pc = "read_done" /\ "min_date" \in DOMAIN call.args /\ Descending
  /\ Len(Yielded) = 3
  /\ Yielded[1].date.v = Cutoff
  /\ Yielded[2].date.v < Cutoff
  /\ ReturnedIds = <<3>>
  /\ outcome.consumed = 2

(* --------------------- read_thread on its own ------------------------- *)

ThreadArgs ==
  {[chat_id |-> PyInt(5), message_id |-> PyInt(9)]}
  \cup {[chat_id |-> PyInt(5), message_id |-> PyInt(9), limit |-> PyInt(limit)] :
           limit \in 0..MaxLimit}

\* the threads read: the parent is there or not, and the replies are any stream
\* of at most MaxStream messages
ThreadEnvs ==
  {[QuietEnv EXCEPT !.stream = StreamOf(dates), !.parent = p] :
     dates \in SeqsUpTo(0..MaxInstant, MaxStream), p \in {Msg(9, 0), PyNone}}

ThreadInit ==
  /\ Serving
  /\ pc = "thread"
  /\ call \in {[op |-> "call_tool", name |-> "telegram_read_thread",
                 client |-> "client", connected |-> TRUE,
                 args |-> args, env |-> env] : args \in ThreadArgs, env \in ThreadEnvs}
  /\ outcome = NoOutcome

\* the dispatcher serves the read_thread call
ReadThread ==
  /\ pc = "thread"
  /\ outcome' = call_tool(call.name, call.args, call.env, client, connected)
  /\ pc' = "thread_done"
  /\ served' = served + 1
  /\ UNCHANGED <<config, client, connected, connectResult, connectCalls,
                 disconnectCalls, opened, listed, call>>

SpecThread == ThreadInit /\ [][ReadThread]_vars

\* the replies the remote source returns to the call, newest first
RepliesReturned ==
  LET limit == IF "limit" \in DOMAIN call.args THEN call.args["limit"].v ELSE 20
  IN  SubSeq(call.env.stream, 1, Min(limit, Len(call.env.stream)))

\* the ids of the replies of the output, in order
ReplyIds ==
  LET replies == Body.value.d["replies"].v
  IN  [i \in 1..Len(replies) |-> replies[i].d["id"].v]

\* C11: read_thread returns the replies the remote source returned, in the
\* reverse of the order they came in, and reply_count is their number; when the
\* parent message is absent it returns a diagnostic text and fetches no replies.
C11_ThreadChronological ==
  pc = "thread_done" =>
    /\ HandlerReturned
    /\ OneTextBlock
    /\ IF call.env.parent.t = "none"
       THEN /\ Body.fmt = "plain"
            /\ Body.frags = <<"Message ", "9", " not found.">>
            /\ outcome.remote = <<"get_messages">>
       ELSE /\ Body.fmt = "json"
            /\ ReplyIds = [i \in 1..Len(RepliesReturned) |->
                             RepliesReturned[Len(RepliesReturned) + 1 - i].id]
            /\ Body.value.d["reply_count"] = PyInt(Len(RepliesReturned))

\* C11 witness: three replies returned as 3, 2, 1 come out as 1, 2, 3
C11_Witness ==
  /\ pc = "thread_done"
  /\ call.env.parent.t # "none"
  /\ [i \in 1..Len(RepliesReturned) |-> RepliesReturned[i].id] = <<3, 2, 1>>
  /\ ReplyIds = <<1, 2, 3>>
  /\ Body.value.d["reply_count"] = PyInt(3)

\* C11 witness of the absent parent: the diagnostic, and no reply fetched
C11_WitnessAbsent ==
  /\ pc = "thread_done"
  /\ call.env.parent.t = "none"
  /\ Len(call.env.stream) = 3
  /\ Body.fmt = "plain"
  /\ outcome.remote = <<"get_messages">>

(* ---------------------- list_chats on its own ------------------------- *)

\* the kinds the chat_type argument may name
ChatTypes == {"user", "group", "channel", "bot"}

ListArgs ==
  {<<>>} \cup {[chat_type |-> PyStr(<<kind>>)] : kind \in ChatTypes}

\* the peers of the dialogs: those of Entities, and one of a class that
\* get_chat_type does not know
Peers == Entities \cup {Entity("ChatForbidden", 12, FALSE, FALSE)}

\* the accounts listed: any sequence of at most MaxDialogs dialogs
ListEnvs ==
  {[QuietEnv EXCEPT !.dialogs = [i \in 1..Len(peers) |-> Dialog(peers[i])]] :
     peers \in SeqsUpTo(Peers, MaxDialogs)}

ListInit ==
  /\ Serving
  /\ pc = "list"
  /\ call \in {[op |-> "call_tool", name |-> "telegram_list_chats",
                 client |-> "client", connected |-> TRUE,
                 args |-> args, env |-> env] : args \in ListArgs, env \in ListEnvs}
  /\ outcome = NoOutcome

\* the dispatcher serves the list_chats call
ListChats ==
  /\ pc = "list"
  /\ outcome' = call_tool(call.name, call.args, call.env, client, connected)
  /\ pc' = "list_done"
  /\ served' = served + 1
  /\ UNCHANGED <<config, client, connected, connectResult, connectCalls,
                 disconnectCalls, opened, listed, call>>

SpecList == ListInit /\ [][ListChats]_vars

\* the kind of a peer: user, bot, group, channel or unknown
KindOf(entity) ==
  CASE entity.cls = "User" -> IF entity.bot THEN "bot" ELSE "user"
    [] entity.cls = "Chat" -> "group"
    [] entity.cls = "Channel" -> IF entity.megagroup THEN "group" ELSE "channel"
    [] OTHER -> "unknown"

\* the call names a kind to filter by
Filtered == "chat_type" \in DOMAIN call.args

RECURSIVE OfKind(_, _)
\* the dialogs of the sequence whose kind is the one given, in their order
OfKind(dialogs, kind) ==
  IF Len(dialogs) = 0 THEN <<>>
  ELSE IF KindOf(Head(dialogs).entity) = kind
  THEN <<Head(dialogs)>> \o OfKind(Tail(dialogs), kind)
  ELSE OfKind(Tail(dialogs), kind)

\* the dialogs the claim expects in the result
Expected ==
  IF Filtered THEN OfKind(call.env.dialogs, call.args["chat_type"].v[1])
  ELSE call.env.dialogs

\* the (id, type) pairs of the entries of the result, in order
Listed ==
  LET results == Body.value.v
  IN  [i \in 1..Len(results) |-> <<results[i].d["id"].v, results[i].d["type"].v>>]

\* C12: list_chats returns exactly the dialogs whose kind equals the chat_type
\* filter, in the order of the source; with no filter it returns every dialog,
\* in the order of the source.
C12_ListChatsFilter ==
  pc = "list_done" =>
    /\ HandlerReturned
    /\ Body.fmt = "json"
    /\ Listed = [i \in 1..Len(Expected) |->
                   <<Expected[i].id, <<KindOf(Expected[i].entity)>> >>]

\* C12 witness: of a group, a user and a supergroup, the filter "group" keeps
\* the first and the third, in that order
C12_Witness ==
  /\ pc = "list_done"
  /\ Filtered
  /\ call.args["chat_type"] = PyStr(<<"group">>)
  /\ [i \in 1..Len(call.env.dialogs) |-> call.env.dialogs[i].id] = <<9, 7, 11>>
  /\ Listed = << <<9, <<"group">> >>, <<11, <<"group">> >> >>

(* -------------------- format_message on its own ----------------------- *)

\* the reply header of a message: none, one that names the parent, and one
\* that names no message of this chat
ReplyHeaders ==
  {PyNone, [t |-> "header", reply_to_msg_id |-> PyInt(4)],
   [t |-> "header", reply_to_msg_id |-> PyNone]}

Document(attrs) == [t |-> "document", attributes |-> attrs]

Attr(name, voice) == [name |-> name, voice |-> voice]

\* the media of a message: none, a photo, documents of some kinds, a document
\* medium whose document is gone, a poll
Medias ==
  {PyNone,
   [t |-> "media", cls |-> "MessageMediaPhoto", document |-> PyNone],
   [t |-> "media", cls |-> "MessageMediaDocument", document |-> Document(<<>>)],
   [t |-> "media", cls |-> "MessageMediaDocument",
    document |-> Document(<<Attr("DocumentAttributeFilename", FALSE),
                            Attr("DocumentAttributeAudio", TRUE)>>)],
   [t |-> "media", cls |-> "MessageMediaDocument", document |-> PyNone],
   [t |-> "media", cls |-> "MessageMediaPoll", document |-> PyNone]}

\* the messages formatted: the sender is a user, a chat or unknown, the text is
\* there, empty or None, and each optional part is there or not
Messages ==
  {[Msg(id, 1) EXCEPT !.sender = sender, !.text = text, !.reply_to = reply_to,
                      !.media = media, !.forward = forward] :
     id \in {3}, sender \in {Ann, Entity("Channel", 10, FALSE, FALSE), PyNone},
     text \in {PyStr(<<"hi">>), PyStr(<<>>), PyNone},
     reply_to \in ReplyHeaders, media \in Medias,
     forward \in {PyNone, [t |-> "forward"]}}

FormatInit ==
  /\ Serving
  /\ pc = "format"
  /\ call \in {[op |-> "format_message", message |-> m, env |-> QuietEnv] : m \in Messages}
  /\ outcome = NoOutcome

\* a handler formats a message it was given
FormatMessage ==
  /\ pc = "format"
  /\ outcome' = format_message(call.message, call.env)
  /\ pc' = "formatted"
  /\ UNCHANGED <<config, client, connected, connectResult, connectCalls,
                 disconnectCalls, opened, listed, served, call>>

SpecFormat == FormatInit /\ [][FormatMessage]_vars

\* the record format_message emitted
Record == outcome.value.d

\* C13 as stated: no key of an emitted record holds null.
C13_AsStated ==
  pc = "formatted" => \A k \in DOMAIN Record : Record[k].t # "none"

\* C13: every record has the keys id, sender_name, sender_id, date and text;
\* text is the empty string when the message has none; sender_id is null exactly
\* when the message has no sender, and the other four are never null.  Of the
\* optional keys, media_type is present exactly when the message has media and
\* is a string, forwarded is present exactly when the message is forwarded and
\* is true, and reply_to_msg_id is present exactly when the message has a reply
\* header and holds the id that header names, null when it names none.
C13_RecordShape ==
  pc = "formatted" =>
    LET m == call.message
    IN  /\ ~outcome.raised
        /\ {"id", "sender_name", "sender_id", "date", "text"} \subseteq DOMAIN Record
        /\ DOMAIN Record \subseteq {"id", "sender_name", "sender_id", "date", "text",
                                    "reply_to_msg_id", "media_type", "forwarded"}
        /\ Record["id"] = PyInt(m.id)
        /\ Record["sender_name"].t = "str" /\ Record["date"].t = "str"
        /\ Record["text"] = (IF m.text.t = "none" THEN PyStr(<<>>) ELSE m.text)
        /\ Record["sender_id"] = (IF m.sender.t = "none" THEN PyNone ELSE PyInt(m.sender.id))
        /\ ("media_type" \in DOMAIN Record) = (m.media.t # "none")
        /\ ("media_type" \in DOMAIN Record) => Record["media_type"].t = "str"
        /\ ("forwarded" \in DOMAIN Record) = (m.forward.t # "none")
        /\ ("forwarded" \in DOMAIN Record) => Record["forwarded"] = PyBool(TRUE)
        /\ ("reply_to_msg_id" \in DOMAIN Record) = (m.reply_to.t # "none")
        /\ ("reply_to_msg_id" \in DOMAIN Record) =>
              Record["reply_to_msg_id"] = m.reply_to.reply_to_msg_id

\* C13 witness: a message without sender, text, media, reply header or forward
\* header gives the five fixed keys, sender_id null and text empty
C13_Witness ==
  /\ pc = "formatted"
  /\ call.message.sender.t = "none" /\ call.message.text.t = "none"
  /\ DOMAIN Record = {"id", "sender_name", "sender_id", "date", "text"}
  /\ Record["sender_id"] = PyNone
  /\ Record["text"] = PyStr(<<>>)

(* -------------------- search_contacts on its own ---------------------- *)

ContactsArgs ==
  {[query |-> PyStr(<<"an">>)]}
  \cup {[query |-> PyStr(<<"an">>), limit |-> PyInt(limit)] : limit \in 0..MaxLimit}

\* what the search request returns: any list of at most MaxUsers users
ContactsEnvs ==
  {[QuietEnv EXCEPT !.users = users] :
     users \in SeqsUpTo({Ann, Entity("User", 8, TRUE, FALSE)}, MaxUsers)}

ContactsInit ==
  /\ Serving
  /\ pc = "contacts"
  /\ call \in {[op |-> "call_tool", name |-> "telegram_search_contacts",
                 client |-> "client", connected |-> TRUE,
                 args |-> args, env |-> env] : args \in ContactsArgs, env \in ContactsEnvs}
  /\ outcome = NoOutcome

\* the dispatcher serves the search_contacts call
SearchContacts ==
  /\ pc = "contacts"
  /\ outcome' = call_tool(call.name, call.args, call.env, client, connected)
  /\ pc' = "contacts_done"
  /\ served' = served + 1
  /\ UNCHANGED <<config, client, connected, connectResult, connectCalls,
                 disconnectCalls, opened, listed, call>>

SpecContacts == ContactsInit /\ [][SearchContacts]_vars

\* the limit of the call: the argument, or the default of the handler
ContactsLimit == IF "limit" \in DOMAIN call.args THEN call.args["limit"].v ELSE 10

\* C14: search_contacts makes exactly one remote call, and the number of
\* contacts in its output, and result_count, are at most limit, whatever list
\* of users the remote call returns.
C14_ContactsWithinLimit ==
  pc = "contacts_done" =>
    /\ HandlerReturned
    /\ outcome.remote = <<"SearchRequest">>
    /\ Len(Body.value.d["contacts"].v) <= ContactsLimit
    /\ Body.value.d["result_count"].v <= ContactsLimit

(* ------------------ the connection across tool calls ------------------ *)

\* a step of the serve loop that serves a tool call
CallStep == pc = "serving" /\ served' = served + 1

\* the remote call sites of the call that raised
FailedSites == {i \in 1..Len(outcome.remote) : outcome.remote[i] \in DOMAIN call.env.raises}

\* the call followed another one and found the connection live
FollowsOnLive == Called /\ call.prior # "none" /\ call.client # "None" /\ call.connected

\* what holds after each call: one that follows another on a live connection is
\* routed to its handler, and a remote call that failed was made once, last
ServedAgain ==
  /\ (FollowsOnLive /\ call.name \in ToolNames) =>
        /\ outcome.handler = HandlerOf(call.name)
        /\ OneTextBlock
        /\ Body # NotConnectedText
  /\ (Called /\ outcome.failed.cls # "none" /\ FailedSites # {}) =>
        FailedSites = {Len(outcome.remote)}

\* C15: no tool call, however it ends, changes the wrapper's connection handle,
\* connects or disconnects; a call that follows any other call, failed ones
\* included, on a connection that is still live is routed to its handler and
\* served; and a remote call that failed is not made again.
C15_CallsKeepConnection ==
  /\ [][CallStep => /\ client' = client
                    /\ connected' = connected
                    /\ connectCalls' = connectCalls
                    /\ disconnectCalls' = disconnectCalls]_vars
  /\ [](client # "None" => connectCalls >= 1)
  /\ []ServedAgain

\* C15 witness: a call that follows a failed one, on a live connection, with the
\* handle connect() assigned, and whose handler returned
C15_Witness ==
  /\ FollowsOnLive
  /\ call.prior = "failed"
  /\ client = "client" /\ connectCalls = 1 /\ disconnectCalls = 0
  /\ call.name = "telegram_send_message"
  /\ HandlerReturned

(* --------------------- get_chat_info on its own ----------------------- *)

\* the two best-effort fetches of get_chat_info for an entity of this class
FullSite(cls) ==
  CASE cls = "Channel" -> {"GetFullChannelRequest"}
    [] cls = "Chat" -> {"GetFullChatRequest"}
    [] OTHER -> {}

\* which of the best-effort fetches fail, and how: each answers, or raises one
\* of the remote failures, independently of the other
SubFetchFailures(cls) ==
  UNION {[sites -> RemoteErrors] : sites \in SUBSET (FullSite(cls) \cup {"iter_messages"})}

\* the newest message of the chat: none, one that is pinned, one that is not
NewestMessages == {<<>>, <<[Msg(1, 0) EXCEPT !.pinned = TRUE]>>, <<Msg(1, 0)>>}

ChatInfoEnvs ==
  UNION {{[QuietEnv EXCEPT !.entity = e, !.raises = raises, !.stream = stream] :
            raises \in SubFetchFailures(e.cls), stream \in NewestMessages} : e \in Entities}

ChatInfoInit ==
  /\ Serving
  /\ pc = "chat_info"
  /\ call \in {[op |-> "call_tool", name |-> "telegram_get_chat_info",
                 client |-> "client", connected |-> TRUE,
                 args |-> [chat_id |-> PyInt(5)], env |-> env] : env \in ChatInfoEnvs}
  /\ outcome = NoOutcome

\* the dispatcher serves the get_chat_info call
GetChatInfo ==
  /\ pc = "chat_info"
  /\ outcome' = call_tool(call.name, call.args, call.env, client, connected)
  /\ pc' = "chat_info_done"
  /\ served' = served + 1
  /\ UNCHANGED <<config, client, connected, connectResult, connectCalls,
                 disconnectCalls, opened, listed, call>>

SpecChatInfo == ChatInfoInit /\ [][GetChatInfo]_vars

\* the full-info fetch of the call was made and failed
FullFailed == \E site \in FullSite(call.env.entity.cls) : site \in DOMAIN call.env.raises

\* the pinned-message lookup of the call failed
PinnedFailed == "iter_messages" \in DOMAIN call.env.raises

\* the remote calls the handler made: the sites of its log
Attempted == {outcome.remote[i] : i \in 1..Len(outcome.remote)}

\* the keys every record of an entity of this class carries
BasicKeys(cls) ==
  {"id", "type"}
  \cup (CASE cls = "User" -> {"first_name", "last_name", "username", "phone", "bot", "status"}
          [] cls = "Chat" -> {"title"}
          [] cls = "Channel" -> {"title", "username", "megagroup"}
          [] OTHER -> {})

\* C16: once the entity lookup of get_chat_info succeeded the call returns the
\* JSON record with the basic entity fields, whatever exception the full-info
\* fetch or the pinned-message lookup raises; a fetch that failed leaves its
\* field (description, pinned_message) out, a fetch that succeeded supplies it,
\* and both fetches are attempted whether or not the other failed.
C16_BestEffortSubFetches ==
  pc = "chat_info_done" =>
    LET entity == call.env.entity
        info == Body.value.d
    IN  /\ HandlerReturned
        /\ OneTextBlock
        /\ Body.fmt = "json"
        /\ BasicKeys(entity.cls) \subseteq DOMAIN info
        /\ info["id"] = PyInt(entity.id)
        /\ info["type"] = PyStr(<<KindOf(entity)>>)
        /\ FullFailed => "description" \notin DOMAIN info
        /\ (~FullFailed /\ FullSite(entity.cls) # {}) =>
              ("description" \in DOMAIN info /\ info["description"] = call.env.full.about)
        /\ PinnedFailed => "pinned_message" \notin DOMAIN info
        /\ (~PinnedFailed /\ call.env.stream # <<>> /\ call.env.stream[1].pinned) =>
              "pinned_message" \in DOMAIN info
        /\ FullSite(entity.cls) \cup {"iter_messages"} \subseteq Attempted

\* C16 witness: the full-info fetch of a channel is rejected as private and the
\* pinned message is still looked up and returned
C16_Witness ==
  /\ pc = "chat_info_done"
  /\ call.env.entity.cls = "Channel"
  /\ FullFailed /\ ~PinnedFailed
  /\ call.env.raises["GetFullChannelRequest"].cls = "ChannelPrivateError"
  /\ HandlerReturned
  /\ "description" \notin DOMAIN Body.value.d
  /\ "pinned_message" \in DOMAIN Body.value.d

\* C16 witness of both fetches failing: the basic record alone is returned
C16_WitnessBoth ==
  /\ pc = "chat_info_done"
  /\ FullFailed /\ PinnedFailed
  /\ HandlerReturned
  /\ DOMAIN Body.value.d = BasicKeys(call.env.entity.cls)

====
